---- MODULE Spec2Model ----
(***************************************************************************)
(* Model of cli_from_jsdoc: the export graph resolver (parse.mjs: parse,   *)
(* getSource, getExportDocGetter, getExportFilter) and the argument binder *)
(* (parseArgv.mjs: parseArgv, getValue).                                   *)
(*                                                                         *)
(* Module specifiers are modelled already resolved to abstract paths.      *)
(* Source text is modelled as the ordered list of its top-level items      *)
(* (comments and export constructs); item i spans offsets 2i-1 .. 2i.      *)
(***************************************************************************)
EXTENDS Integers, Sequences, FiniteSets, TLC

\* ------------------------------------------------------------------ bounds
MaxItems == 3   \* items in the entry module
MaxDepth == 4   \* call depth at which the synchronous recursion overflows
MaxArgs == 3    \* command-line tokens handed to parseArgv

VARIABLES
  root,    \* the path resolve() is called with
  entry,   \* items of the entry module "e"
  tasks,   \* the async calls of parse / getSource made so far, by id
  reads,   \* path -> number of readFileSync / readFile calls
  parses,  \* path -> number of acorn.parse calls
  cli,     \* parseArgv: cli.exports
  tokens,  \* parseArgv: the args array as the caller passed it
  args,    \* parseArgv: the args array as it is now
  bpc,     \* parseArgv: the statement it has reached
  program, \* parseArgv: index in cli.exports of the export chosen, 0 for none
  parsed,  \* parseArgv: the values bound so far
  keywords,      \* parseArgv: the keyword list
  argString,     \* parseArgv: args.join(' ')
  optionMatches, \* parseArgv: the matches of the keyword expression
  optionObj,     \* parseArgv: option name -> value
  thrown,  \* parseArgv: the error thrown, if any
  epc,     \* execute: the statement it has reached
  etask,   \* execute: task, as its index in cli.exports, 0 for none
  eparams  \* execute: params, the values parseArgv returned

rvars == <<root, entry, tasks, reads, parses>>
bvars == <<cli, tokens, args, bpc, program, parsed, keywords, argString,
           optionMatches, optionObj, thrown>>
evars == <<epc, etask, eparams>>
vars == <<root, entry, tasks, reads, parses, cli, tokens, args, bpc, program,
          parsed, keywords, argString, optionMatches, optionObj, thrown,
          epc, etask, eparams>>

\* ------------------------------------------------------- generic helpers
RECURSIVE ConcatTo(_, _)
ConcatTo(ss, n) == IF n = 0 THEN <<>> ELSE ConcatTo(ss, n - 1) \o ss[n]
\* the members of a sequence of sequences, joined in order
Concat(ss) == ConcatTo(ss, Len(ss))

Min(S) == CHOOSE x \in S : \A y \in S : x <= y
Max(S) == CHOOSE x \in S : \A y \in S : y <= x

\* the members of a finite set of integers, smallest first
Ascending(S) ==
  [k \in 1..Cardinality(S) |-> CHOOSE x \in S : Cardinality({y \in S : y < x}) = k - 1]

RECURSIVE SeqsUpTo(_, _)
SeqsUpTo(S, n) ==
  IF n = 0 THEN {<<>>}
  ELSE LET prev == SeqsUpTo(S, n - 1)
       IN prev \cup {Append(s, x) : s \in {p \in prev : Len(p) = n - 1}, x \in S}

\* ------------------------------------------------------------ file system
Comment(jsdoc) == [t |-> "comment", name |-> "", local |-> "", from |-> "", jsdoc |-> jsdoc]
Decl(n)        == [t |-> "decl", name |-> n, local |-> n, from |-> "", jsdoc |-> FALSE]
Named(n, l)    == [t |-> "spec", name |-> n, local |-> l, from |-> "", jsdoc |-> FALSE]
From(n, l, f)  == [t |-> "from", name |-> n, local |-> l, from |-> f, jsdoc |-> FALSE]
All(f)         == [t |-> "all", name |-> "", local |-> "", from |-> f, jsdoc |-> FALSE]
Default        == [t |-> "default", name |-> "default", local |-> "default", from |-> "", jsdoc |-> FALSE]

Paths == {"e", "a", "b", "c", "d", "dir", "m"}
Exists(p) == p \in {"e", "a", "b", "c", "d", "dir"}   \* fs.existsSync
IsFile(p) == p \in {"e", "a", "b", "c", "d"}          \* fs.statSync(p).isFile()

\* the modules the entry module can re-export from
LibA == <<Comment(TRUE), Decl("x"), All("d"), Comment(FALSE), Decl("y")>>
LibB == <<Decl("x"), Named("y", "y0"), Default>>
LibC == <<All("c")>>
LibD == <<Decl("w"), Comment(TRUE), Decl("z")>>

EntryItems ==
  { Comment(TRUE), Decl("x"), All("a"), All("b"), All("d"), All("c"), All("m"),
    From("y", "z", "d"), From("n", "nope", "d") }

\* acorn rejects a module that exports one name twice by explicit constructs
ValidModule(items) ==
  \A i, j \in 1..Len(items) :
    (i # j /\ items[i].t \in {"decl", "spec", "from", "default"}
           /\ items[j].t \in {"decl", "spec", "from", "default"})
      => items[i].name # items[j].name

Content(p) ==
  CASE p = "e" -> entry
    [] p = "a" -> LibA
    [] p = "b" -> LibB
    [] p = "c" -> LibC
    [] p = "d" -> LibD
    [] OTHER -> <<>>

StartOf(i) == 2 * i - 1
EndOf(i) == 2 * i

\* ---------------------------------------------------------------- records
NoDoc == 0
Binding(n, f, sn, pos) == [name |-> n, file |-> f, sname |-> sn, pos |-> pos, doc |-> NoDoc]

NoErr == "none"
Task(kind, file, name, local, parent, slot, depth) ==
  [kind |-> kind, file |-> file, name |-> name, local |-> local, parent |-> parent,
   slot |-> slot, depth |-> depth, pc |-> "start", slots |-> <<>>, flat |-> <<>>,
   exports |-> <<>>, pending |-> {}, err |-> NoErr]

ChildrenOf(t) == {c \in DOMAIN tasks : tasks[c].parent = t}

\* ------------------------------------------------- parse: the walk (55-107)
IsExport(it) == it.t # "comment"
IsAsync(it) == it.t \in {"all", "from"}

\* indices of the export constructs of a module, in textual order
ExportIdx(items) == Ascending({i \in 1..Len(items) : IsExport(items[i])})
AsyncIdx(items) == Ascending({i \in 1..Len(items) : IsAsync(items[i])})

\* what the walk pushes for the construct at index i; `calls` are the calls
\* the walk of this module has started, the first of them with id `first`
SlotOf(file, items, i, me, calls, first) ==
  LET it == items[i] IN
  CASE it.t = "decl" ->
         [imm |-> TRUE, child |-> 0,
          vals |-> <<Binding(it.name, file, it.name, StartOf(i))>>]
    [] it.t = "spec" ->
         [imm |-> TRUE, child |-> 0,
          vals |-> <<Binding(it.name, file, it.local, StartOf(i))>>]
    [] it.t = "default" ->
         [imm |-> TRUE, child |-> 0,
          vals |-> <<Binding("default", file, "default", StartOf(i))>>]
    [] OTHER ->
         [imm |-> FALSE, vals |-> <<>>,
          child |-> first - 1 + CHOOSE k \in 1..Len(calls) :
                                  calls[k].parent = me /\ calls[k].slot = i]

\* cli.exports as the walk leaves it: one slot per export construct
Slots(file, items, me, calls, first) ==
  LET idx == ExportIdx(items)
  IN [k \in 1..Len(idx) |-> SlotOf(file, items, idx[k], me, calls, first)]

\* ------------------------------------------- getExportFilter (187-213)
IsDuplicate(exports, i) ==
  \E j \in 1..Len(exports) : i # j /\ exports[j].name = exports[i].name

\* exports.findIndex(other => other.name === exp.name && other.source.file === cli.file)
RootExportIndex(exports, i, file) ==
  LET hits == {j \in 1..Len(exports) :
                 exports[j].name = exports[i].name /\ exports[j].file = file}
  IN IF hits = {} THEN 0 ELSE Min(hits)

\* variant: the first of the duplicates is taken for the last
IsFirstDuplicate(exports, i) ==
  ~ \E j \in 1..Len(exports) : exports[j].name = exports[i].name /\ j < i

IsLastDuplicate(exports, i) ==
  ~ \E j \in 1..Len(exports) : exports[j].name = exports[i].name /\ i < j

Keep(exports, i, file) ==
  IF IsDuplicate(exports, i)
  THEN IF RootExportIndex(exports, i, file) # 0
       THEN i = RootExportIndex(exports, i, file)
       ELSE IsLastDuplicate(exports, i)
  ELSE TRUE

ExportFilter(exports, file) ==
  LET idx == Ascending({i \in 1..Len(exports) : Keep(exports, i, file)})
  IN [k \in 1..Len(idx) |-> exports[idx[k]]]

\* ------------------------------------------ getExportDocGetter (158-180)
\* the comments acorn reports for a module, in order
Comments(items) ==
  LET idx == Ascending({i \in 1..Len(items) : items[i].t = "comment"})
  IN [k \in 1..Len(idx) |->
        [start |-> StartOf(idx[k]), end |-> EndOf(idx[k]),
         item |-> idx[k], jsdoc |-> items[idx[k]].jsdoc]]

\* comments.find(...): index of the first comment the predicate accepts, 0 if none
FindComment(comments, pos) ==
  LET ok == {k \in 1..Len(comments) :
               IF k = Len(comments) THEN TRUE
               ELSE comments[k].end < pos /\ comments[k + 1].start > pos}
  IN IF ok = {} THEN 0 ELSE Min(ok)

\* exp.doc after getExportDoc(exp): comment-parser yields nothing for a
\* comment that is not a documentation block
DocOf(exp) ==
  LET comments == Comments(Content(exp.file))
      k == FindComment(comments, exp.pos)
  IN IF k = 0 THEN exp.doc
     ELSE IF comments[k].jsdoc THEN comments[k].item ELSE NoDoc

\* ------------------------------------------------------- getSource (124-150)
\* the export node getSource settles on: the last one the walk assigns
SourceNode(items, name) ==
  LET hits == {i \in 1..Len(items) :
                 \/ items[i].t = "decl" /\ items[i].name = name
                 \/ items[i].t = "default" /\ name = "default"}
  IN IF hits = {} THEN 0 ELSE Max(hits)

\* ------------------------------------------------------ parse (35-116)
\* variant: the awaited results are appended after the bindings pushed directly
FlattenAwaitedLast(slots) ==
  Concat([k \in 1..Len(slots) |-> IF slots[k].imm THEN slots[k].vals ELSE <<>>])
  \o Concat([k \in 1..Len(slots) |->
               IF slots[k].imm THEN <<>> ELSE tasks[slots[k].child].exports])

\* (await Promise.all(cli.exports)).flat(): every call's result in the slot
\* the walk reserved for it
Flatten(slots) ==
  Concat([k \in 1..Len(slots) |->
            IF slots[k].imm THEN slots[k].vals ELSE tasks[slots[k].child].exports])

Settle(t, pc, err) == [tasks EXCEPT ![t].pc = pc, ![t].err = err]
Failed(task, err) == [task EXCEPT !.pc = "failed", !.err = err]

\* getSource has no await: it has returned or thrown when the call returns
GetSource(task) ==
  LET f == task.file
      node == SourceNode(Content(f), task.local)
  IN IF ~Exists(f) THEN Failed(task, "FileNotFound")
     ELSE IF ~IsFile(f) THEN Failed(task, "NotAFile")
     ELSE IF node = 0 THEN Failed(task, "ExportNotFound")
     ELSE [task EXCEPT !.pc = "done",
                       !.exports = <<Binding(task.name, f, task.local, StartOf(node))>>]

\* the call the walk makes for the async construct at index i
CallFor(items, i, parent, depth) ==
  IF items[i].t = "all"
  THEN Task("parse", items[i].from, "", "", parent, i, depth + 1)
  ELSE Task("getSource", items[i].from, items[i].name, items[i].local, parent, i, depth + 1)

\* a call of parse or getSource up to its first await, with the calls its walk
\* makes on the way (a called async function runs until it first awaits): the
\* calls made, this one first with id `id`, the others in call order
RECURSIVE Call(_, _)
RECURSIVE CallEach(_, _, _, _, _)
Call(me, id) ==
  IF me.kind = "getSource" THEN <<GetSource(me)>>
  ELSE IF me.depth > MaxDepth THEN <<Failed(me, "RangeError")>>
  ELSE IF ~Exists(me.file) THEN <<Failed(me, "FileNotFound")>>
  ELSE IF ~IsFile(me.file) THEN <<Failed(me, "NotAFile")>>
  ELSE CHOOSE made \in
         { <<[me EXCEPT !.pc = "await",
                        !.slots = Slots(me.file, Content(me.file), id, calls, id + 1)]>>
             \o calls :
             calls \in {CallEach(Content(me.file), id, me.depth, 1, id + 1)} } :
         TRUE

\* the calls started for the k-th, (k+1)-th, ... async construct of the module
CallEach(items, parent, depth, k, next) ==
  IF k > Len(AsyncIdx(items)) THEN <<>>
  ELSE CHOOSE made \in
         { first \o CallEach(items, parent, depth, k + 1, next + Len(first)) :
             first \in { Call(me, next) :
                           me \in {CallFor(items, AsyncIdx(items)[k], parent, depth)} } } :
         TRUE

\* the calls that got as far as reading and parsing their file
DidRead(task) == task.pc \in {"await", "done"} \/ task.err = "ExportNotFound"
ReadsOf(calls, p) == Cardinality({k \in 1..Len(calls) : calls[k].file = p /\ DidRead(calls[k])})

\* resolve(root): the synchronous part of parse(root)
Parse ==
  /\ tasks = <<>>
  /\ \E calls \in {Call(Task("parse", root, "", "", 0, 0, 1), 1)} :
     /\ tasks' = calls
     /\ reads' = [p \in Paths |-> reads[p] + ReadsOf(calls, p)]
     /\ parses' = [p \in Paths |-> parses[p] + ReadsOf(calls, p)]
  /\ UNCHANGED <<root, entry>>
  /\ UNCHANGED <<bvars, evars>>

\* variant: a rejection is passed on only once no call is left that succeeded
RejectedWhenAllFailed(t) ==
  IF \E c \in ChildrenOf(t) : tasks[c].pc # "failed" THEN {}
  ELSE {c \in ChildrenOf(t) : tasks[c].pc = "failed"}

\* the calls of t whose promise has rejected
Rejected(t) == {c \in ChildrenOf(t) : tasks[c].pc = "failed"}

\* Promise.all rejects as soon as one of the calls has rejected
Reject(t) ==
  /\ tasks[t].pc = "await"
  /\ \E c \in Rejected(t) : tasks' = Settle(t, "failed", tasks[c].err)
  /\ UNCHANGED <<root, entry, reads, parses>>
  /\ UNCHANGED <<bvars, evars>>

\* after Promise.all: flat, filter, and getExportDoc called on every export;
\* the lookups in the module's own text finish at once, the others wait for
\* their readFile
Collect(t) ==
  /\ tasks[t].pc = "await"
  /\ \A c \in ChildrenOf(t) : tasks[c].pc = "done"
  /\ \E flat \in {Flatten(tasks[t].slots)} :
     \E kept \in {ExportFilter(flat, tasks[t].file)} :
     \E own \in {{i \in 1..Len(kept) : kept[i].file = tasks[t].file}} :
       /\ tasks' = [tasks EXCEPT
                      ![t].pc = "docs",
                      ![t].flat = flat,
                      ![t].exports =
                         [i \in 1..Len(kept) |->
                            IF i \in own THEN [kept[i] EXCEPT !.doc = DocOf(kept[i])]
                            ELSE kept[i]],
                      ![t].pending = (1..Len(kept)) \ own]
       /\ parses' = [parses EXCEPT ![tasks[t].file] = @ + Cardinality(own)]
  /\ UNCHANGED <<root, entry, reads>>
  /\ UNCHANGED <<bvars, evars>>

\* getExportDoc for an export defined in another file, once its readFile is back
DocLookup(t, i) ==
  /\ tasks[t].pc = "docs"
  /\ i \in tasks[t].pending
  /\ LET exp == tasks[t].exports[i] IN
     /\ reads' = [reads EXCEPT ![exp.file] = @ + 1]
     /\ parses' = [parses EXCEPT ![exp.file] = @ + 1]
     /\ tasks' = [tasks EXCEPT ![t].exports[i].doc = DocOf(exp),
                               ![t].pending = @ \ {i}]
  /\ UNCHANGED <<root, entry>>
  /\ UNCHANGED <<bvars, evars>>

\* return cli
Return(t) ==
  /\ tasks[t].pc = "docs"
  /\ tasks[t].pending = {}
  /\ tasks' = [tasks EXCEPT ![t].pc = "done"]
  /\ UNCHANGED <<root, entry, reads, parses>>
  /\ UNCHANGED <<bvars, evars>>

\* parseArgv is not running
BinderIdle ==
  /\ cli = <<>> /\ tokens = <<>> /\ args = <<>> /\ bpc = "idle" /\ program = 0
  /\ parsed = <<>> /\ keywords = <<>> /\ argString = <<>> /\ optionMatches = <<>>
  /\ optionObj = <<>> /\ thrown = [kind |-> "none", text |-> <<>>]

\* execute has not been called
ExecuteIdle == epc = "idle" /\ etask = 0 /\ eparams = <<>>

InitResolve ==
  /\ BinderIdle
  /\ ExecuteIdle
  /\ root \in {"e", "dir", "m"}
  /\ entry \in {s \in SeqsUpTo(EntryItems, MaxItems) :
                  ValidModule(s) /\ (root # "e" => s = <<>>)}
  /\ tasks = <<>>
  /\ reads = [p \in Paths |-> 0]
  /\ parses = [p \in Paths |-> 0]

NextResolve ==
  \/ Parse
  \/ \E t \in DOMAIN tasks : Reject(t)
  \/ \E t \in DOMAIN tasks : Collect(t)
  \/ \E t \in DOMAIN tasks : \E i \in tasks[t].pending : DocLookup(t, i)
  \/ \E t \in DOMAIN tasks : Return(t)

SpecResolve == InitResolve /\ [][NextResolve]_vars

\* ======================================================= the argument binder
\* Strings are sequences of one-character strings.
S_verbose == <<"v", "e", "r", "b", "o", "s", "e">>
S_flag == <<"f", "l", "a", "g">>
S_src == <<"s", "r", "c">>
S_dst == <<"d", "s", "t">>
S_n == <<"n">>
S_v == <<"v">>
S_build == <<"b", "u", "i", "l", "d">>
S_test == <<"t", "e", "s", "t">>
S_main == <<"m", "a", "i", "n">>
S_true == <<"t", "r", "u", "e">>
S_false == <<"f", "a", "l", "s", "e">>
S_undefined == <<"u", "n", "d", "e", "f", "i", "n", "e", "d">>
S_null == <<"n", "u", "l", "l">>
S_no == <<"n", "o", "-">>
S_object == <<"[", "o", "b", "j", "e", "c", "t", " ", "O", "b", "j", "e", "c", "t", "]">>
T_verbose == <<"-", "-", "v", "e", "r", "b", "o", "s", "e">>
T_noverbose == <<"-", "-", "n", "o", "-", "v", "e", "r", "b", "o", "s", "e">>
T_v == <<"-", "v">>
T_flag == <<"-", "-", "f", "l", "a", "g">>
T_1 == <<"1">>
T_bogus == <<"b", "o", "g", "u", "s">>

Digits == <<"0", "1", "2", "3", "4", "5", "6", "7", "8", "9">>
IsDigit(c) == \E d \in 1..Len(Digits) : Digits[d] = c
DigitVal(c) == (CHOOSE d \in 1..Len(Digits) : Digits[d] = c) - 1

StartsWith(s, p) == Len(p) <= Len(s) /\ SubSeq(s, 1, Len(p)) = p
Includes(s, c) == \E i \in 1..Len(s) : s[i] = c
\* s.indexOf(c), counted from 0, -1 when absent
IndexOf(s, c) == IF Includes(s, c) THEN Min({i \in 1..Len(s) : s[i] = c}) - 1 ELSE -1
\* s.slice(from) and s.slice(from, to), offsets counted from 0
SliceFrom(s, from) == SubSeq(s, from + 1, Len(s))
Slice(s, from, to) == SubSeq(s, from + 1, IF to > Len(s) THEN Len(s) ELSE to)

RECURSIVE JoinTo(_, _, _)
JoinTo(ss, sep, n) ==
  IF n = 0 THEN <<>>
  ELSE IF n = 1 THEN ss[1]
  ELSE JoinTo(ss, sep, n - 1) \o sep \o ss[n]
\* ss.join(sep)
Join(ss, sep) == JoinTo(ss, sep, Len(ss))

\* ------------------------------------------------------------- JS values
Undefined == [k |-> "undefined", b |-> FALSE, n |-> 0, s |-> <<>>]
StrV(s)  == [k |-> "string", b |-> FALSE, n |-> 0, s |-> s]
NumV(n)  == [k |-> "number", b |-> FALSE, n |-> n, s |-> <<>>]
BoolV(b) == [k |-> "boolean", b |-> b, n |-> 0, s |-> <<>>]
ObjV     == [k |-> "object", b |-> FALSE, n |-> 0, s |-> <<>>]
NullV    == [k |-> "null", b |-> FALSE, n |-> 0, s |-> <<>>]

RECURSIVE DecimalOf(_)
DecimalOf(n) ==
  IF n < 10 THEN <<Digits[n + 1]>> ELSE DecimalOf(n \div 10) \o <<Digits[(n % 10) + 1]>>

\* String(v), as Array.prototype.join renders an element (undefined as "")
JoinText(v) ==
  CASE v.k = "string" -> v.s
    [] v.k = "number" -> IF v.n < 0 THEN <<"-">> \o DecimalOf(0 - v.n) ELSE DecimalOf(v.n)
    [] v.k = "boolean" -> IF v.b THEN S_true ELSE S_false
    [] v.k = "object" -> S_object
    [] OTHER -> <<>>

Ok(v) == [ok |-> TRUE, val |-> v, err |-> "none", text |-> <<>>]
Throw(kind, text) == [ok |-> FALSE, val |-> Undefined, err |-> kind, text |-> text]

\* s.trim() for the one whitespace character of the alphabet
RECURSIVE TrimLeft(_, _)
TrimLeft(s, i) == IF i <= Len(s) /\ s[i] = " " THEN TrimLeft(s, i + 1) ELSE SubSeq(s, i, Len(s))
RECURSIVE TrimRight(_, _)
TrimRight(s, n) == IF n >= 1 /\ s[n] = " " THEN TrimRight(s, n - 1) ELSE SubSeq(s, 1, n)
Trim(s) == TrimLeft(TrimRight(s, Len(s)), 1)

RECURSIVE NatOf(_, _)
NatOf(s, n) == IF n = 0 THEN 0 ELSE 10 * NatOf(s, n - 1) + DigitVal(s[n])
AllDigits(s) == s # <<>> /\ \A i \in 1..Len(s) : IsDigit(s[i])

\* Number(s) on the modelled alphabet (lower-case letters, digits, "-", " "):
\* [nan |-> ..., n |-> ...]
NumberOf(s) ==
  LET t == Trim(s) IN
  IF t = <<>> THEN [nan |-> FALSE, n |-> 0]
  ELSE IF AllDigits(t) THEN [nan |-> FALSE, n |-> NatOf(t, Len(t))]
  ELSE IF t[1] = "-" /\ AllDigits(Tail(t)) THEN [nan |-> FALSE, n |-> 0 - NatOf(Tail(t), Len(t) - 1)]
  ELSE [nan |-> TRUE, n |-> 0]

\* JSON.parse(s) on the modelled alphabet
JSONParse(s) ==
  LET t == Trim(s) IN
  IF t = S_true THEN Ok(BoolV(TRUE))
  ELSE IF t = S_false THEN Ok(BoolV(FALSE))
  ELSE IF t = S_null THEN Ok(NullV)
  ELSE IF AllDigits(t) /\ (Len(t) = 1 \/ t[1] # "0") THEN Ok(NumV(NatOf(t, Len(t))))
  ELSE IF Len(t) > 1 /\ t[1] = "-" /\ AllDigits(Tail(t)) /\ (Len(t) = 2 \/ t[2] # "0")
       THEN Ok(NumV(0 - NatOf(Tail(t), Len(t) - 1)))
  ELSE Throw("SyntaxError", s)

\* ------------------------------------------------------ getValue (119-147)
RECURSIVE StripDashes(_)
\* while (valueString.startsWith('-')) valueString = valueString.slice(1)
StripDashes(s) == IF s # <<>> /\ s[1] = "-" THEN StripDashes(Tail(s)) ELSE s

\* getValue(v, {type}); v is a string or, from args.shift() on an empty array,
\* undefined. The types of the modelled descriptors are boolean, number,
\* string, object and "any" (none of the former); their values have no ".".
GetValue(v, type) ==
  CASE type = "boolean" ->
         IF v.k = "undefined" THEN Throw("TypeError", <<>>)
         ELSE IF Includes(v.s, "-")
         THEN Ok(BoolV(~StartsWith(StripDashes(v.s), S_no)))
         ELSE IF v.s = S_false \/ v.s = <<"0">> \/ StartsWith(v.s, <<"n">>) THEN Ok(BoolV(FALSE))
         ELSE IF v.s = S_true \/ v.s = <<"1">> \/ StartsWith(v.s, <<"y">>) THEN Ok(BoolV(TRUE))
         ELSE Throw("InvalidBoolean", v.s)
    [] type = "number" ->
         IF v.k = "undefined" THEN Throw("TypeError", <<>>)
         ELSE IF NumberOf(v.s).nan THEN Throw("InvalidNumber", v.s)
         ELSE Ok(NumV(NumberOf(v.s).n))
    [] type = "string" ->
         IF v.k = "undefined" THEN Ok(StrV(S_undefined)) ELSE Ok(StrV(v.s))
    [] type = "object" ->
         IF v.k = "undefined" \/ v.s = <<>> THEN Ok(ObjV) ELSE JSONParse(v.s)
    [] OTHER -> Ok(v)


\* --------------------------------------------------- parseArgv (29-111)
Param(name, type, optional) == [name |-> name, type |-> type, optional |-> optional]
Export(name, params) == [name |-> name, params |-> params]

\* program.doc.tags.filter(t => t.tag === 'param' && t.optional === false)
Required(exp) ==
  LET idx == Ascending({i \in 1..Len(exp.params) : ~exp.params[i].optional})
  IN [k \in 1..Len(idx) |-> exp.params[idx[k]]]
\* program.doc.tags.filter(t => t.tag === 'param' && t.optional === true)
Options(exp) ==
  LET idx == Ascending({i \in 1..Len(exp.params) : exp.params[i].optional})
  IN [k \in 1..Len(idx) |-> exp.params[idx[k]]]

\* cli.exports.find(e => e.name === name): its index, 0 when there is none
FindExport(exports, name) ==
  LET hits == {i \in 1..Len(exports) : exports[i].name = name}
  IN IF hits = {} THEN 0 ELSE Min(hits)

\* args[0], undefined on an empty array
First(as) == IF as = <<>> THEN Undefined ELSE StrV(as[1])

\* line 31: the export parseArgv works on
Program(exports, as) ==
  IF Len(exports) >= 1 THEN 1
  ELSE IF First(as).k = "undefined" THEN 0 ELSE FindExport(exports, First(as).s)

Raise(kind, text) ==
  /\ bpc' = "failed"
  /\ thrown' = [kind |-> kind, text |-> text]

\* lines 31-33
SelectProgram ==
  /\ bpc = "select"
  /\ program' = Program(cli, args)
  /\ IF program' = 0
     THEN /\ Raise("UnknownCommand", Join(args, <<" ">>))
          /\ UNCHANGED args
     ELSE /\ args' = IF Len(cli) > 1 /\ args # <<>> THEN Tail(args) ELSE args
          /\ bpc' = "required"
          /\ UNCHANGED thrown
  /\ UNCHANGED <<cli, tokens, parsed, keywords, argString, optionMatches, optionObj>>
  /\ UNCHANGED <<rvars, evars>>

\* how many leading tokens do not start with "-"
RECURSIVE Leading(_, _)
Leading(as, n) ==
  IF n < Len(as) /\ ~StartsWith(as[n + 1], <<"-">>) THEN Leading(as, n + 1) ELSE n

\* lines 44-47: one args.shift() per required parameter, until one throws
RECURSIVE BindEach(_, _, _, _)
BindEach(params, k, as, acc) ==
  IF k > Len(params) THEN [args |-> as, parsed |-> acc, res |-> Ok(Undefined)]
  ELSE LET r == GetValue(First(as), params[k].type)
           rest == IF as = <<>> THEN as ELSE Tail(as)
       IN IF r.ok THEN BindEach(params, k + 1, rest, Append(acc, r.val))
          ELSE [args |-> rest, parsed |-> acc, res |-> r]

\* lines 38-48 as a whole
BindParams(params, as) ==
  IF Len(params) = 1
  THEN LET n == Leading(as, 0)
           r == GetValue(StrV(Join(SubSeq(as, 1, n), <<" ">>)), params[1].type)
       IN [args |-> SubSeq(as, n + 1, Len(as)),
           parsed |-> IF r.ok THEN <<r.val>> ELSE <<>>, res |-> r]
  ELSE BindEach(params, 1, as, <<>>)

BindRequired ==
  /\ bpc = "required"
  /\ \E b \in {BindParams(Required(cli[program]), args)} :
       /\ args' = b.args
       /\ parsed' = b.parsed
       /\ IF b.res.ok THEN bpc' = "keywords" /\ UNCHANGED thrown
          ELSE Raise(b.res.err, b.res.text)
  /\ UNCHANGED <<cli, tokens, program, keywords, argString, optionMatches, optionObj>>
  /\ UNCHANGED <<rvars, evars>>

\* lines 54-55: the keywords of one option
KeywordsOf(option) ==
  << <<"-", "-">> \o option.name, <<"-">> \o option.name, <<"-">> \o SubSeq(option.name, 1, 1) >>
  \o (IF option.type = "boolean"
      THEN << <<"-", "-", "n", "o", "-">> \o option.name, <<"-", "n", "o", "-">> \o option.name >>
      ELSE <<>>)

\* lines 53-59: the keywords of all options, in order
AllKeywords(options) == Concat([k \in 1..Len(options) |-> KeywordsOf(options[k])])

Count(kws, kw) == Cardinality({i \in 1..Len(kws) : kws[i] = kw})

\* lines 61-64: every keyword that occurs more than once is spliced out wholly
Unambiguous(kws) ==
  LET idx == Ascending({i \in 1..Len(kws) : Count(kws, kws[i]) = 1})
  IN [k \in 1..Len(idx) |-> kws[idx[k]]]

\* optionMap[kw]: the last option that listed kw
OptionFor(options, kw) ==
  options[Max({k \in 1..Len(options) :
                 \E i \in 1..Len(KeywordsOf(options[k])) : KeywordsOf(options[k])[i] = kw})]

\* line 67: a bound value that starts with a keyword
LooksLikeOption(values, kws) ==
  \E i \in 1..Len(values) :
    /\ values[i].k = "string"
    /\ \E j \in 1..Len(kws) : StartsWith(values[i].s, kws[j])

\* lines 51-69
ParseKeywords ==
  /\ bpc = "keywords"
  /\ keywords' = Unambiguous(AllKeywords(Options(cli[program])))
  /\ IF LooksLikeOption(parsed, keywords')
     THEN Raise("AmbiguousArguments",
                Join([i \in 1..Len(parsed) |-> JoinText(parsed[i])], <<" ">>))
     ELSE bpc' = "scan" /\ UNCHANGED thrown
  /\ UNCHANGED <<cli, tokens, args, program, parsed, argString, optionMatches, optionObj>>
  /\ UNCHANGED <<rvars, evars>>

\* keywords.sort((a, b) => b.length - a.length): longest first, stable
ByLength(kws) ==
  [r \in 1..Len(kws) |->
     kws[CHOOSE i \in 1..Len(kws) :
           Cardinality({j \in 1..Len(kws) :
                          \/ Len(kws[j]) > Len(kws[i])
                          \/ Len(kws[j]) = Len(kws[i]) /\ j < i}) = r - 1]]

\* the alternative of / (k1|k2|...)/ that matches at offset i of text, 0 if none
MatchAt(text, kws, i) ==
  LET hits == {m \in 1..Len(kws) :
                 /\ i + Len(kws[m]) <= Len(text)
                 /\ text[i] = " "
                 /\ SubSeq(text, i + 1, i + Len(kws[m])) = kws[m]}
  IN IF hits = {} THEN 0 ELSE Min(hits)

\* text.matchAll(/ (k1|k2|...)/g) from offset i on: [index, kw] per match,
\* index counted from 0
RECURSIVE MatchAll(_, _, _)
MatchAll(text, kws, i) ==
  IF i > Len(text) THEN <<>>
  ELSE IF MatchAt(text, kws, i) = 0 THEN MatchAll(text, kws, i + 1)
  ELSE <<[index |-> i - 1, kw |-> kws[MatchAt(text, kws, i)]]>>
       \o MatchAll(text, kws, i + 1 + Len(kws[MatchAt(text, kws, i)]))

\* variant: the reduce keeps the greater index
LastIndex(matches) == Max({matches[i].index : i \in 1..Len(matches)})

\* line 76: the match with the least index
FirstIndex(matches) == Min({matches[i].index : i \in 1..Len(matches)})

\* line 77: whether the text before the first match makes parseArgv throw
HasLeadingText(matches) == FirstIndex(matches) # 0

\* lines 72-78
ScanOptions ==
  /\ bpc = "scan"
  /\ argString' = Join(args, <<" ">>)
  /\ keywords' = IF keywords # <<>> THEN ByLength(keywords) ELSE keywords
  /\ optionMatches' = IF keywords # <<>>
                      THEN MatchAll(<<" ">> \o argString', keywords', 1)
                      ELSE <<>>
  /\ IF optionMatches' # <<>> /\ HasLeadingText(optionMatches')
     THEN Raise("UnknownArgument", Slice(argString', 0, FirstIndex(optionMatches')))
     ELSE bpc' = "options" /\ UNCHANGED thrown
  /\ UNCHANGED <<cli, tokens, args, program, parsed, optionObj>>
  /\ UNCHANGED <<rvars, evars>>

\* lines 84-85: the text after an option's keyword, up to the next match
ValueString(text, matches, i) ==
  LET optionString ==
        IF i < Len(matches) THEN Slice(text, matches[i].index, matches[i + 1].index)
        ELSE SliceFrom(text, matches[i].index)
  IN SliceFrom(optionString, IndexOf(optionString, " ") + 1)

\* lines 80-96: the options bound one match after the other, until one throws
RECURSIVE BindMatches(_, _, _, _, _)
BindMatches(options, text, matches, i, obj) ==
  IF i > Len(matches) THEN [obj |-> obj, res |-> Ok(Undefined)]
  ELSE LET option == OptionFor(options, matches[i].kw)
           r == GetValue(StrV(ValueString(text, matches, i)), option.type)
       IN IF r.ok
          THEN BindMatches(options, text, matches, i + 1,
                           [obj EXCEPT ![option.name] = r.val])
          ELSE [obj |-> obj, res |-> r]

BindOptions ==
  /\ bpc = "options"
  /\ \E b \in {BindMatches(Options(cli[program]), argString, optionMatches, 1,
                           [n \in {Options(cli[program])[k].name :
                                     k \in 1..Len(Options(cli[program]))} |-> Undefined])} :
       /\ optionObj' = b.obj
       /\ IF b.res.ok THEN bpc' = "assemble" /\ UNCHANGED thrown
          ELSE Raise(b.res.err, b.res.text)
  /\ UNCHANGED <<cli, tokens, args, program, parsed, keywords, argString, optionMatches>>
  /\ UNCHANGED <<rvars, evars>>

\* line 105: while (typeof parsed[parsed.length - 1] === 'undefined') parsed.pop()
\* parsed[-1] of an empty array is undefined too: once the array is empty the
\* loop never ends
RECURSIVE Trimmed(_, _)
Trimmed(values, n) ==
  IF n >= 1 /\ values[n].k = "undefined" THEN Trimmed(values, n - 1) ELSE SubSeq(values, 1, n)
PopsForever(values) == \A i \in 1..Len(values) : values[i].k = "undefined"

\* lines 99-103: the options that are pushed, those without a "." in the name
TopLevel(options) ==
  LET idx == Ascending({k \in 1..Len(options) : ~Includes(options[k].name, ".")})
  IN [k \in 1..Len(idx) |-> options[idx[k]]]

\* line 107: the names of the parameters left without a value
MissingNames(params, n) ==
  Join([k \in 1..(Len(params) - n) |-> <<"<">> \o params[n + k].name \o <<">">>], <<" ">>)

\* lines 98-110
Assemble ==
  /\ bpc = "assemble"
  /\ LET options == TopLevel(Options(cli[program]))
         params == Required(cli[program])
         all == parsed \o [k \in 1..Len(options) |-> optionObj[options[k].name]]
         kept == Trimmed(all, Len(all))
     IN /\ parsed' = kept
        /\ IF PopsForever(all)
           THEN bpc' = "popping" /\ UNCHANGED thrown
           ELSE IF Len(kept) < Len(params)
           THEN Raise("MissingArguments", MissingNames(params, Len(kept)))
           ELSE bpc' = "done" /\ UNCHANGED thrown
  /\ UNCHANGED <<cli, tokens, args, program, keywords, argString, optionMatches, optionObj>>
  /\ UNCHANGED <<rvars, evars>>

\* ------------------------------------------------------ the binder's inputs
Types == {"boolean", "number", "string", "object", "any"}
TypePairs == {<<t, t>> : t \in Types} \cup {<<"string", "number">>, <<"number", "string">>}

OptVerbose == Param(S_verbose, "boolean", TRUE)
OptFlag == Param(S_flag, "string", TRUE)
OptShort == Param(S_v, "boolean", TRUE)
ExpMain == Export(S_main, <<OptVerbose, OptFlag>>)
ExpBuild == Export(S_build, <<Param(S_src, "string", FALSE), OptVerbose>>)
ExpTest == Export(S_test, <<Param(S_n, "number", FALSE), OptFlag>>)
ExpShort == Export(S_main, <<OptShort, OptFlag>>)
ExpAmbig == Export(S_main, <<OptVerbose, OptShort>>)
ExpCopy(t1, t2) ==
  Export(S_main, <<Param(S_src, t1, FALSE), Param(S_dst, t2, FALSE), OptVerbose>>)

Descriptors ==
  { <<>>, <<ExpMain>>, <<ExpBuild, ExpTest>>, <<ExpTest, ExpBuild>>,
    <<ExpShort>>, <<ExpAmbig>> }
  \cup { <<ExpCopy(p[1], p[2])>> : p \in TypePairs }

Tokens == {S_build, S_test, T_verbose, T_noverbose, T_v, T_flag, T_1, T_bogus}

InitBind ==
  /\ ExecuteIdle
  /\ root = "e" /\ entry = <<>> /\ tasks = <<>>
  /\ reads = [p \in Paths |-> 0] /\ parses = [p \in Paths |-> 0]
  /\ cli \in Descriptors
  /\ tokens \in SeqsUpTo(Tokens, MaxArgs)
  /\ args = tokens
  /\ bpc = "select"
  /\ program = 0 /\ parsed = <<>> /\ keywords = <<>> /\ argString = <<>>
  /\ optionMatches = <<>> /\ optionObj = <<>>
  /\ thrown = [kind |-> "none", text |-> <<>>]

NextBind ==
  \/ SelectProgram
  \/ BindRequired
  \/ ParseKeywords
  \/ ScanOptions
  \/ BindOptions
  \/ Assemble

SpecBind == InitBind /\ [][NextBind]_vars

\* ------------------------------------------------------ execute (18-48)
T_help == <<"-", "-", "h", "e", "l", "p">>
T_h == <<"-", "h">>
\* ['-h', '--help'].includes(a)
IsHelp(a) == a = T_h \/ a = T_help

\* line 23: the export execute will call
TaskOf(exports, as) ==
  IF Len(exports) = 1 THEN 1
  ELSE IF First(as).k = "undefined" THEN 0 ELSE FindExport(exports, First(as).s)

\* line 21: a task name followed somewhere by a help flag
AsksTaskHelp(exports, as) ==
  /\ as # <<>>
  /\ FindExport(exports, as[1]) # 0
  /\ \E i \in 2..Len(as) : IsHelp(as[i])

\* lines 19-32: up to the call of parseArgv, which gets execute's own array
ExecuteSelect ==
  /\ epc = "start"
  /\ IF Len(cli) = 0
     THEN epc' = "failed" /\ UNCHANGED <<etask, bpc>>
     ELSE IF (args # <<>> /\ IsHelp(args[1])) \/ AsksTaskHelp(cli, args)
     THEN epc' = "manual" /\ UNCHANGED <<etask, bpc>>
     ELSE /\ etask' = TaskOf(cli, args)
          /\ IF etask' = 0
             THEN epc' = "exit" /\ UNCHANGED bpc
             ELSE epc' = "binding" /\ bpc' = "select"
  /\ UNCHANGED <<cli, tokens, args, program, parsed, keywords, argString,
                 optionMatches, optionObj, thrown, eparams>>
  /\ UNCHANGED rvars

\* lines 33-37: parseArgv threw
ExecuteCatch ==
  /\ epc = "binding"
  /\ bpc = "failed"
  /\ epc' = "exit"
  /\ UNCHANGED <<etask, eparams>>
  /\ UNCHANGED <<rvars, bvars>>

\* lines 32, 39-40: parseArgv returned, the task is imported and called
ExecuteInvoke ==
  /\ epc = "binding"
  /\ bpc = "done"
  /\ eparams' = parsed
  /\ epc' = "invoked"
  /\ UNCHANGED etask
  /\ UNCHANGED <<rvars, bvars>>

ExecTokens == {S_build, S_test, T_1, T_v, T_help}

InitExecute ==
  /\ root = "e" /\ entry = <<>> /\ tasks = <<>>
  /\ reads = [p \in Paths |-> 0] /\ parses = [p \in Paths |-> 0]
  /\ cli \in Descriptors
  /\ tokens \in SeqsUpTo(ExecTokens, MaxArgs)
  /\ args = tokens
  /\ bpc = "idle"
  /\ program = 0 /\ parsed = <<>> /\ keywords = <<>> /\ argString = <<>>
  /\ optionMatches = <<>> /\ optionObj = <<>>
  /\ thrown = [kind |-> "none", text |-> <<>>]
  /\ epc = "start" /\ etask = 0 /\ eparams = <<>>

NextExecute ==
  \/ ExecuteSelect
  \/ SelectProgram
  \/ BindRequired
  \/ ParseKeywords
  \/ ScanOptions
  \/ BindOptions
  \/ Assemble
  \/ ExecuteCatch
  \/ ExecuteInvoke

SpecExecute == InitExecute /\ [][NextExecute]_vars

\* fairness: the event loop runs every continuation that is ready
LiveResolve == InitResolve /\ [][NextResolve]_vars /\ WF_vars(NextResolve)

\* =================================================== claims: the resolver
Started == tasks # <<>>
RootPc == IF Started THEN tasks[1].pc ELSE "idle"
StripDoc(exports) == [k \in 1..Len(exports) |-> [exports[k] EXCEPT !.doc = NoDoc]]
NamesOf(exports) == {exports[k].name : k \in 1..Len(exports)}
Occurrences(exports, n) == {k \in 1..Len(exports) : exports[k].name = n}
Filtered(t) == tasks[t].kind = "parse" /\ tasks[t].pc \in {"docs", "done"}

\* C2: after the filter, every name that occurred more than once in the
\* flattened list is carried by exactly one binding; that binding is defined
\* in the module being resolved if such a binding occurred, and otherwise it
\* is the last binding of that name in the flattened list.
C2_CollisionPolicy ==
  \A t \in DOMAIN tasks :
    Filtered(t) =>
      LET flat == tasks[t].flat
          ex == tasks[t].exports
      IN \A n \in NamesOf(flat) :
           Cardinality(Occurrences(flat, n)) > 1 =>
             /\ Cardinality(Occurrences(ex, n)) = 1
             /\ \A k \in Occurrences(ex, n) :
                  IF \E j \in Occurrences(flat, n) : flat[j].file = tasks[t].file
                  THEN ex[k].file = tasks[t].file
                  ELSE StripDoc(<<ex[k]>>) = StripDoc(<<flat[Max(Occurrences(flat, n))]>>)

\* a resolve that returned after one name came in from two other files and
\* another name both from another file and from the entry module itself
C2_Witness ==
  /\ RootPc = "done"
  /\ \E i, j \in 1..Len(tasks[1].flat) :
       /\ i < j
       /\ tasks[1].flat[i].name = tasks[1].flat[j].name
       /\ tasks[1].flat[i].file # tasks[1].flat[j].file
       /\ \A k \in Occurrences(tasks[1].flat, tasks[1].flat[i].name) :
            tasks[1].flat[k].file # root
  /\ \E i, j \in 1..Len(tasks[1].flat) :
       /\ i < j
       /\ tasks[1].flat[i].name = tasks[1].flat[j].name
       /\ tasks[1].flat[i].file = root
       /\ tasks[1].flat[j].file # root

\* the bindings of module f read top to bottom, one call after the other,
\* every export * replaced in place by the exports of its target
RECURSIVE Inlined(_)
Inlined(f) ==
  LET items == Content(f)
      idx == ExportIdx(items)
  IN Concat([k \in 1..Len(idx) |->
       LET i == idx[k]
           it == items[i]
       IN CASE it.t = "all" -> ExportFilter(Inlined(it.from), it.from)
            [] it.t = "from" ->
                 <<Binding(it.name, it.from, it.local,
                           StartOf(SourceNode(Content(it.from), it.local)))>>
            [] it.t = "spec" -> <<Binding(it.name, f, it.local, StartOf(i))>>
            [] OTHER -> <<Binding(it.name, f, it.name, StartOf(i))>>])

\* C3: whatever the order in which the calls completed, the list resolve
\* returns is the entry module's export constructs in textual order, every
\* export * expanded in place (and then filtered).
C3_TextualOrder ==
  RootPc = "done" =>
    /\ StripDoc(tasks[1].flat) = Inlined(root)
    /\ StripDoc(tasks[1].exports) = ExportFilter(Inlined(root), root)

\* a resolve that returned with two awaited calls and a binding pushed
\* directly after them
C3_Witness ==
  /\ RootPc = "done"
  /\ \E i, j, k \in 1..Len(tasks[1].slots) :
       /\ i < j /\ j < k
       /\ ~tasks[1].slots[i].imm /\ tasks[tasks[1].slots[i].child].exports # <<>>
       /\ ~tasks[1].slots[j].imm
       /\ tasks[1].slots[k].imm

\* the files parse recurses into from p
AllTargets(p) ==
  IF IsFile(p)
  THEN {Content(p)[i].from : i \in {j \in 1..Len(Content(p)) : Content(p)[j].t = "all"}}
  ELSE {}
RECURSIVE ReachIn(_, _)
ReachIn(S, n) ==
  IF n = 0 THEN S ELSE ReachIn(S \cup UNION {AllTargets(p) : p \in S}, n - 1)
Reachable(p) == ReachIn(AllTargets(p), Cardinality(Paths))
Acyclic == \A p \in {root} \cup Reachable(root) : p \notin Reachable(p)

ResolutionErrors == {"FileNotFound", "NotAFile", "ExportNotFound"}
RootReturned == RootPc = "done"
RootFailed == RootPc = "failed" /\ tasks[1].err \in ResolutionErrors

\* C4: when the re-export graph below the entry module has no cycle,
\* resolve eventually returns a descriptor or fails with a resolution error.
C4_Terminates == Acyclic => <>(RootReturned \/ RootFailed)

\* a resolve that returned after reaching one file along two paths
C4_Witness ==
  /\ RootPc = "done"
  /\ Acyclic
  /\ \E s, t \in DOMAIN tasks :
       /\ s # t
       /\ tasks[s].kind = "parse" /\ tasks[t].kind = "parse"
       /\ tasks[s].file = tasks[t].file
       /\ tasks[s].parent # tasks[t].parent

\* the comments of the defining file that end before the declaration
EndBefore(exp) ==
  {k \in 1..Len(Comments(Content(exp.file))) :
     Comments(Content(exp.file))[k].end < exp.pos}

\* C5: the documentation attached to an export is the closest comment block
\* that ends strictly before its declaration, and is absent when no comment
\* block ends before the declaration.
C5_NearestPrecedingBlock ==
  \A t \in DOMAIN tasks :
    (tasks[t].kind = "parse" /\ tasks[t].pc = "done") =>
      \A i \in 1..Len(tasks[t].exports) :
        LET exp == tasks[t].exports[i]
            cs == Comments(Content(exp.file))
        IN IF EndBefore(exp) = {} THEN exp.doc = NoDoc
           ELSE cs[Max(EndBefore(exp))].jsdoc => exp.doc = cs[Max(EndBefore(exp))].item

\* C6: every binding of the returned descriptor carries documentation.
C6_AllDocumented ==
  RootPc = "done" =>
    \A i \in 1..Len(tasks[1].exports) : tasks[1].exports[i].doc # NoDoc

\* C10: when resolve has returned, it has read every file at most once and
\* parsed every file at most once.
C10_ReadOnce == RootPc = "done" => \A p \in Paths : reads[p] <= 1 /\ parses[p] <= 1

\* ===================================================== claims: the binder
Finished == bpc \in {"done", "failed", "popping"}
Chosen == bpc \notin {"idle", "select"}

\* C1: with more than one export and a first token, the export parseArgv works
\* on is the one named by the first token, and parseArgv fails with
\* UnknownCommand when no export has that name.
C1_TargetByName ==
  (Chosen /\ Len(cli) > 1 /\ tokens # <<>>) =>
    LET named == FindExport(cli, tokens[1])
    IN IF named = 0 THEN bpc = "failed" /\ thrown.kind = "UnknownCommand"
       ELSE program = named

VerboseKeywords == KeywordsOf(OptVerbose)
NegatedVerbose == {VerboseKeywords[4], VerboseKeywords[5]}
VerboseMatches ==
  {i \in 1..Len(optionMatches) :
     \E k \in 1..Len(VerboseKeywords) : optionMatches[i].kw = VerboseKeywords[k]}
\* the text from match i up to the next match
OptionText(i) ==
  SubSeq(argString, optionMatches[i].index + 1,
         IF i < Len(optionMatches) THEN optionMatches[i + 1].index ELSE Len(argString))
\* the flag stands alone: it is the last token or the next token is an option
Bare(i) == Trim(OptionText(i)) = optionMatches[i].kw
HasVerbose ==
  /\ program # 0
  /\ \E k \in 1..Len(cli[program].params) : cli[program].params[k] = OptVerbose
OptionsBound == optionObj # <<>>

\* C7: once the options are bound, a boolean option verbose whose one flag
\* stands alone (it is the last token, or a further option flag follows it) is
\* false when the flag is --no-verbose, true when it is --verbose or -v, and
\* undefined when the tokens hold no flag for it.
C7_BooleanFlag ==
  (/\ HasVerbose /\ OptionsBound
   /\ Cardinality(VerboseMatches) <= 1
   /\ \A i \in VerboseMatches : Bare(i)) =>
    IF VerboseMatches = {} THEN optionObj[S_verbose] = Undefined
    ELSE IF optionMatches[Max(VerboseMatches)].kw \in NegatedVerbose
    THEN optionObj[S_verbose] = BoolV(FALSE)
    ELSE optionObj[S_verbose] = BoolV(TRUE)

\* the command line held no argument token
NoArguments == IF Len(cli) > 1 THEN Len(tokens) <= 1 ELSE tokens = <<>>

\* C8: with two required parameters and no argument token parseArgv ends by
\* throwing MissingArguments naming both parameters.
C8_MissingBoth ==
  (Finished /\ program # 0 /\ Len(Required(cli[program])) = 2 /\ NoArguments) =>
    /\ bpc = "failed"
    /\ thrown.kind = "MissingArguments"
    /\ thrown.text = MissingNames(Required(cli[program]), 0)

\* the text of argString in front of the first keyword matched
LeadingText == SubSeq(argString, 1, optionMatches[1].index)
NonBlank(s) == \E i \in 1..Len(s) : s[i] # " "

\* C9: when text other than whitespace stands in front of the first keyword
\* matched in the remaining tokens, parseArgv fails with UnknownArgument
\* naming that text.
C9_UnknownLeadingText ==
  (optionMatches # <<>> /\ NonBlank(LeadingText)) =>
    /\ bpc = "failed"
    /\ thrown.kind = "UnknownArgument"
    /\ thrown.text = LeadingText

\* ["bogus", "--flag", "1"] against an export with a --flag option has failed
\* naming "bogus"
C9_Witness ==
  /\ cli = <<ExpMain>>
  /\ tokens = <<T_bogus, T_flag, T_1>>
  /\ optionMatches # <<>>
  /\ thrown.kind = "UnknownArgument"
  /\ Trim(thrown.text) = T_bogus

\* parseArgv has returned or thrown
Ended == bpc \in {"done", "failed"}

\* C11: after parseArgv returns or throws, the caller's args array holds the
\* elements it held before the call, in the same order.
C11_CallerTokensIntact == Ended => args = tokens

\* the keyword table has been built
TableBuilt == bpc \in {"scan", "options", "assemble", "done", "popping"}
\* the optional parameters that derive the keyword kw
Derivers(kw) ==
  {k \in 1..Len(Options(cli[program])) :
     \E i \in 1..Len(KeywordsOf(Options(cli[program])[k])) :
       KeywordsOf(Options(cli[program])[k])[i] = kw}
Recognized == {keywords[i] : i \in 1..Len(keywords)}

\* C12: once the keyword table is built, a candidate keyword of an optional
\* parameter is in the table exactly when a single optional parameter derives
\* it, whatever the length of that parameter's name.
C12_KeywordTable ==
  TableBuilt =>
    \A k \in 1..Len(Options(cli[program])) :
      \A i \in 1..Len(KeywordsOf(Options(cli[program])[k])) :
        LET kw == KeywordsOf(Options(cli[program])[k])[i]
        IN (kw \in Recognized) <=> (Cardinality(Derivers(kw)) = 1)

\* C13: whenever execute gets to call a task, the export parseArgv bound the
\* arguments against is the export execute calls with them.
C13_SameExport == epc = "invoked" => program = etask

\* the text left after the command name and the required parameters that no
\* matched keyword covers: all of it when nothing matched, else the text in
\* front of the first match
Uncovered ==
  IF optionMatches = <<>> THEN argString
  ELSE SubSeq(argString, 1, FirstIndex(optionMatches))

\* C14: when parseArgv returns, no text other than whitespace is left outside
\* the matched keywords and their raw values, also when no keyword matched.
C14_NoSilentDiscard == bpc = "done" => ~NonBlank(Uncovered)

====
